---- MODULE Spec2Model ----
(***************************************************************************)
(* Model of the InkyBank ledger contract (src/lib.rs).                     *)
(*                                                                         *)
(* The contract storage is the six fields of struct InkyBank.  Every       *)
(* #[ink(message)] is a Rust method on that struct; it is modelled by an   *)
(* operator of the same name that maps the storage before the call, the    *)
(* caller and the arguments to the storage after the call, the returned    *)
(* Result and the events handed to emit_event, in emission order.  The     *)
(* methods are modelled as the Rust code executes them when invoked on the *)
(* struct; whatever the host does with a returned Err is outside lib.rs.   *)
(*                                                                         *)
(* u128 is scaled down to 0..MaxAmount; saturating_add / saturating_sub    *)
(* clamp to that range, and the one unchecked addition of the source       *)
(* (Iterator::sum in batch_transfer) either panics or wraps modulo         *)
(* MaxAmount + 1, depending on the build's overflow checks.                *)
(***************************************************************************)
EXTENDS Integers, Sequences, FiniteSets

\* ---------------------------------------------------------------- bounds

\* u128::MAX, scaled down.
MaxAmount == 2

\* Longest recipients / amounts vector handed to batch_transfer.
MaxBatch == 2

Accounts == {"A", "B", "C"}

\* The account that instantiates the contract.
Deployers == {"A"}

\* Accounts the owner is asked to blacklist or clear.
BlacklistTargets == {"B"}

\* (owner, spender) pairs for which approve is called.
ApprovePairs == {<<"A", "B">>}

\* Callers of batch_transfer: an account that is also named as a recipient.
BatchCallers == {"B"}

\* Recipients named in a batch.
BatchRecipients == {"B", "C"}

Amounts == 0..MaxAmount

\* Amounts named in a batch: none, the smallest, the largest.
BatchAmounts == {0, 1, MaxAmount}

\* Amounts approved: none, the smallest, the largest.
ApproveAmounts == {0, 1, MaxAmount}

VARIABLES
    owner,          \* InkyBank.owner
    total_supply,   \* InkyBank.total_supply
    balances,       \* InkyBank.balances, as the function account -> balance_of(account)
    allowances,     \* InkyBank.allowances, as the function <<owner, spender>> -> allowance
    paused,         \* InkyBank.paused
    blacklist,      \* InkyBank.blacklist, as the function account -> get(account).unwrap_or(false)
    call,           \* the message being answered: [op, caller, args], op = "none" between messages
    result,         \* what the message returned: "Ok", an Error variant, "Panic", or "none"
    events,         \* the events the message handed to emit_event, in order
    pre,            \* the storage as it was when the message started
    delegated       \* history, kept in SpecDelegated only: per (owner, spender) pair,
                    \* the amount of its last approve and what transfer_from moved since

storage_vars == <<owner, total_supply, balances, allowances, paused, blacklist>>
vars == <<owner, total_supply, balances, allowances, paused, blacklist, call, result, events, pre,
          delegated>>

\* ---------------------------------------------------------------- storage

\* struct InkyBank as one value (the `self` of the methods).
Storage ==
    [owner |-> owner, total_supply |-> total_supply, balances |-> balances,
     allowances |-> allowances, paused |-> paused, blacklist |-> blacklist]

\* The constructor.
new(caller) ==
    [owner |-> caller,
     total_supply |-> 0,
     balances |-> [a \in Accounts |-> 0],
     allowances |-> [p \in Accounts \X Accounts |-> 0],
     paused |-> FALSE,
     blacklist |-> [a \in Accounts |-> FALSE]]

\* Mutant of saturating_add: the addition wraps instead of clamping.
wrapping_add(a, b) == (a + b) % (MaxAmount + 1)

\* u128::saturating_add and u128::saturating_sub.
saturating_add(a, b) == IF a + b > MaxAmount THEN MaxAmount ELSE a + b
saturating_sub(a, b) == IF a < b THEN 0 ELSE a - b

\* ---------------------------------------------------------------- events

Minted(to, amount) == <<"Minted", to, amount>>
TransferEvent(from, to, amount) == <<"Transfer", from, to, amount>>
Approval(o, spender, amount) == <<"Approval", o, spender, amount>>
Paused(p) == <<"Paused", p>>
Burned(from, amount) == <<"Burned", from, amount>>
Blacklisted(account, status) == <<"Blacklisted", account, status>>

\* ---------------------------------------------------------------- outcomes

\* enum Error.
Error ==
    {"InsufficientBalance", "NotOwner", "ZeroAmount", "ContractPaused",
     "AccountBlacklisted", "InsufficientAllowance", "InvalidBatchOperation"}

\* return Err(e): the storage as the method leaves it, nothing emitted by this return.
Err(self, e, evs) == [self |-> self, result |-> e, events |-> evs]
\* Ok(()) after the writes and the emitted events.
Ok(self, evs) == [self |-> self, result |-> "Ok", events |-> evs]

\* ---------------------------------------------------------------- messages

balance_of(self, account) == self.balances[account]

allowance(self, o, spender) == self.allowances[<<o, spender>>]

\* Mutant of mint: the pause check comes before the owner check.
mint_pause_checked_first(self, caller, to, amount) ==
    IF self.paused THEN Err(self, "ContractPaused", <<>>)
    ELSE IF caller # self.owner THEN Err(self, "NotOwner", <<>>)
    ELSE IF self.blacklist[to] THEN Err(self, "AccountBlacklisted", <<>>)
    ELSE IF amount = 0 THEN Err(self, "ZeroAmount", <<>>)
    ELSE Ok([self EXCEPT !.balances[to] = saturating_add(balance_of(self, to), amount),
                         !.total_supply = saturating_add(self.total_supply, amount)],
            <<Minted(to, amount)>>)

mint(self, caller, to, amount) ==
    IF caller # self.owner THEN Err(self, "NotOwner", <<>>)
    ELSE IF self.paused THEN Err(self, "ContractPaused", <<>>)
    ELSE IF self.blacklist[to] THEN Err(self, "AccountBlacklisted", <<>>)
    ELSE IF amount = 0 THEN Err(self, "ZeroAmount", <<>>)
    ELSE LET current_balance == balance_of(self, to)
             new_balance == saturating_add(current_balance, amount)
         IN  Ok([self EXCEPT !.balances[to] = new_balance,
                             !.total_supply = saturating_add(self.total_supply, amount)],
                <<Minted(to, amount)>>)

\* Mutant of transfer: the event names the recipient as the sender.
transfer_event_swapped(self, from, to, amount) ==
    IF amount = 0 THEN Err(self, "ZeroAmount", <<>>)
    ELSE LET from_balance == balance_of(self, from) IN
    IF from_balance < amount THEN Err(self, "InsufficientBalance", <<>>)
    ELSE LET s1 == [self EXCEPT !.balances[from] = saturating_sub(from_balance, amount)]
             s2 == [s1 EXCEPT !.balances[to] = saturating_add(balance_of(s1, to), amount)]
         IN  Ok(s2, <<TransferEvent(to, from, amount)>>)

\* Mutant of transfer: the credit is computed from the balance read before the debit.
transfer_stale_credit(self, from, to, amount) ==
    IF amount = 0 THEN Err(self, "ZeroAmount", <<>>)
    ELSE LET from_balance == balance_of(self, from) IN
    IF from_balance < amount THEN Err(self, "InsufficientBalance", <<>>)
    ELSE LET to_balance == balance_of(self, to)
             s1 == [self EXCEPT !.balances[from] = saturating_sub(from_balance, amount)]
             s2 == [s1 EXCEPT !.balances[to] = saturating_add(to_balance, amount)]
         IN  Ok(s2, <<TransferEvent(from, to, amount)>>)

\* Mutant of transfer: sending the whole balance is refused.
transfer_rejects_full_balance(self, from, to, amount) ==
    IF amount = 0 THEN Err(self, "ZeroAmount", <<>>)
    ELSE LET from_balance == balance_of(self, from) IN
    IF from_balance <= amount THEN Err(self, "InsufficientBalance", <<>>)
    ELSE LET s1 == [self EXCEPT !.balances[from] = saturating_sub(from_balance, amount)]
             s2 == [s1 EXCEPT !.balances[to] = saturating_add(balance_of(s1, to), amount)]
         IN  Ok(s2, <<TransferEvent(from, to, amount)>>)

\* Mutant of transfer: the amount sent is also taken off total_supply.
transfer_lowers_supply(self, from, to, amount) ==
    IF amount = 0 THEN Err(self, "ZeroAmount", <<>>)
    ELSE LET from_balance == balance_of(self, from) IN
    IF from_balance < amount THEN Err(self, "InsufficientBalance", <<>>)
    ELSE LET s1 == [self EXCEPT !.balances[from] = saturating_sub(from_balance, amount)]
             s2 == [s1 EXCEPT !.balances[to] = saturating_add(balance_of(s1, to), amount)]
             s3 == [s2 EXCEPT !.total_supply = saturating_sub(@, amount)]
         IN  Ok(s3, <<TransferEvent(from, to, amount)>>)

transfer(self, from, to, amount) ==
    IF amount = 0 THEN Err(self, "ZeroAmount", <<>>)
    ELSE LET from_balance == balance_of(self, from) IN
    IF from_balance < amount THEN Err(self, "InsufficientBalance", <<>>)
    ELSE LET new_from_balance == saturating_sub(from_balance, amount)
             s1 == [self EXCEPT !.balances[from] = new_from_balance]
             to_balance == balance_of(s1, to)
             new_to_balance == saturating_add(to_balance, amount)
             s2 == [s1 EXCEPT !.balances[to] = new_to_balance]
         IN  Ok(s2, <<TransferEvent(from, to, amount)>>)

approve(self, caller, spender, amount) ==
    Ok([self EXCEPT !.allowances[<<caller, spender>>] = amount],
       <<Approval(caller, spender, amount)>>)

\* Mutant of transfer_from: the pause check is missing.
transfer_from_no_pause_check(self, caller, from, to, amount) ==
    IF amount = 0 THEN Err(self, "ZeroAmount", <<>>)
    ELSE IF allowance(self, from, caller) < amount THEN Err(self, "InsufficientAllowance", <<>>)
    ELSE LET from_balance == balance_of(self, from) IN
    IF from_balance < amount THEN Err(self, "InsufficientBalance", <<>>)
    ELSE LET s1 == [self EXCEPT !.balances[to] = saturating_add(balance_of(self, to), amount)]
             s2 == [s1 EXCEPT !.balances[from] = saturating_sub(from_balance, amount)]
         IN  Ok(s2, <<TransferEvent(from, to, amount)>>)

\* Mutant of transfer_from: the allowance is decremented after the transfer.
transfer_from_decrements_allowance(self, caller, from, to, amount) ==
    IF self.paused THEN Err(self, "ContractPaused", <<>>)
    ELSE IF amount = 0 THEN Err(self, "ZeroAmount", <<>>)
    ELSE IF allowance(self, from, caller) < amount THEN Err(self, "InsufficientAllowance", <<>>)
    ELSE LET from_balance == balance_of(self, from) IN
    IF from_balance < amount THEN Err(self, "InsufficientBalance", <<>>)
    ELSE LET s1 == [self EXCEPT !.balances[to] = saturating_add(balance_of(self, to), amount)]
             s2 == [s1 EXCEPT !.balances[from] = saturating_sub(from_balance, amount)]
             s3 == [s2 EXCEPT !.allowances[<<from, caller>>] = @ - amount]
         IN  Ok(s3, <<TransferEvent(from, to, amount)>>)

transfer_from(self, caller, from, to, amount) ==
    IF self.paused THEN Err(self, "ContractPaused", <<>>)
    ELSE IF amount = 0 THEN Err(self, "ZeroAmount", <<>>)
    ELSE IF allowance(self, from, caller) < amount THEN Err(self, "InsufficientAllowance", <<>>)
    ELSE LET from_balance == balance_of(self, from) IN
    IF from_balance < amount THEN Err(self, "InsufficientBalance", <<>>)
    ELSE LET to_balance == balance_of(self, to)
             new_to_balance == saturating_add(to_balance, amount)
             s1 == [self EXCEPT !.balances[to] = new_to_balance]
             \* the debit uses the balance read before the credit was written
             s2 == [s1 EXCEPT !.balances[from] = saturating_sub(from_balance, amount)]
         IN  Ok(s2, <<TransferEvent(from, to, amount)>>)

\* The true (unbounded) sum of a vector of amounts.
RECURSIVE SumSeq(_)
SumSeq(s) == IF s = <<>> THEN 0 ELSE Head(s) + SumSeq(Tail(s))

\* The for loop of batch_transfer from index i on: each pair goes through
\* transfer, and `?` returns the first Err with the storage as it then is.
RECURSIVE batch_loop(_, _, _, _, _, _)
batch_loop(self, caller, recipients, amounts, i, evs) ==
    IF i > Len(recipients) THEN Ok(self, evs)
    ELSE LET t == transfer(self, caller, recipients[i], amounts[i]) IN
         IF t.result # "Ok" THEN Err(t.self, t.result, evs)
         ELSE batch_loop(t.self, caller, recipients, amounts, i + 1, evs \o t.events)

\* Mutant of batch_transfer: a failing pair rolls the whole batch back.
batch_transfer_all_or_nothing(self, caller, recipients, amounts, overflow_checks) ==
    IF self.paused THEN Err(self, "ContractPaused", <<>>)
    ELSE IF Len(recipients) # Len(amounts) THEN Err(self, "InvalidBatchOperation", <<>>)
    ELSE IF SumSeq(amounts) > MaxAmount /\ overflow_checks
         THEN [self |-> self, result |-> "Panic", events |-> <<>>]
    ELSE IF SumSeq(amounts) % (MaxAmount + 1) > balance_of(self, caller)
         THEN Err(self, "InsufficientBalance", <<>>)
    ELSE LET out == batch_loop(self, caller, recipients, amounts, 1, <<>>) IN
         IF out.result = "Ok" THEN out ELSE Err(self, out.result, <<>>)

\* overflow_checks: whether the build panics on integer overflow (it wraps otherwise).
batch_transfer(self, caller, recipients, amounts, overflow_checks) ==
    IF self.paused THEN Err(self, "ContractPaused", <<>>)
    ELSE IF Len(recipients) # Len(amounts) THEN Err(self, "InvalidBatchOperation", <<>>)
    ELSE IF SumSeq(amounts) > MaxAmount /\ overflow_checks
         THEN [self |-> self, result |-> "Panic", events |-> <<>>]
    ELSE LET total_amount == SumSeq(amounts) % (MaxAmount + 1) IN
    IF total_amount > balance_of(self, caller) THEN Err(self, "InsufficientBalance", <<>>)
    ELSE batch_loop(self, caller, recipients, amounts, 1, <<>>)

\* Mutant of toggle_pause: the flag is written before the owner check.
toggle_pause_write_first(self, caller, p) ==
    IF caller # self.owner THEN Err([self EXCEPT !.paused = p], "NotOwner", <<>>)
    ELSE Ok([self EXCEPT !.paused = p], <<Paused(p)>>)

toggle_pause(self, caller, p) ==
    IF caller # self.owner THEN Err(self, "NotOwner", <<>>)
    ELSE Ok([self EXCEPT !.paused = p], <<Paused(p)>>)

\* Mutant of burn: a blacklisted account may not burn.
burn_checks_blacklist(self, caller, amount) ==
    IF self.blacklist[caller] THEN Err(self, "AccountBlacklisted", <<>>)
    ELSE IF amount = 0 THEN Err(self, "ZeroAmount", <<>>)
    ELSE LET balance == balance_of(self, caller) IN
    IF balance < amount THEN Err(self, "InsufficientBalance", <<>>)
    ELSE Ok([self EXCEPT !.balances[caller] = saturating_sub(balance, amount),
                         !.total_supply = saturating_sub(self.total_supply, amount)],
            <<Burned(caller, amount)>>)

\* Mutant of burn: the zero-amount check is missing.
burn_no_zero_check(self, caller, amount) ==
    LET balance == balance_of(self, caller) IN
    IF balance < amount THEN Err(self, "InsufficientBalance", <<>>)
    ELSE Ok([self EXCEPT !.balances[caller] = saturating_sub(balance, amount),
                         !.total_supply = saturating_sub(self.total_supply, amount)],
            <<Burned(caller, amount)>>)

burn(self, caller, amount) ==
    IF amount = 0 THEN Err(self, "ZeroAmount", <<>>)
    ELSE LET balance == balance_of(self, caller) IN
    IF balance < amount THEN Err(self, "InsufficientBalance", <<>>)
    ELSE Ok([self EXCEPT !.balances[caller] = saturating_sub(balance, amount),
                         !.total_supply = saturating_sub(self.total_supply, amount)],
            <<Burned(caller, amount)>>)

\* Mutant of toggle_blacklist: the account is written to the owner field.
toggle_blacklist_overwrites_owner(self, caller, account, status) ==
    IF caller # self.owner THEN Err(self, "NotOwner", <<>>)
    ELSE Ok([self EXCEPT !.owner = account, !.blacklist[account] = status],
            <<Blacklisted(account, status)>>)

\* Mutant of toggle_blacklist: the owner check is missing.
toggle_blacklist_any_caller(self, caller, account, status) ==
    Ok([self EXCEPT !.blacklist[account] = status], <<Blacklisted(account, status)>>)

toggle_blacklist(self, caller, account, status) ==
    IF caller # self.owner THEN Err(self, "NotOwner", <<>>)
    ELSE Ok([self EXCEPT !.blacklist[account] = status], <<Blacklisted(account, status)>>)

\* ---------------------------------------------------------------- state machine

NoCall == [op |-> "none", caller |-> "none", args |-> <<>>]

Init ==
    \E d \in Deployers :
        LET s == new(d) IN
        /\ owner = s.owner
        /\ total_supply = s.total_supply
        /\ balances = s.balances
        /\ allowances = s.allowances
        /\ paused = s.paused
        /\ blacklist = s.blacklist
        /\ call = NoCall
        /\ result = "none"
        /\ events = <<>>
        /\ pre = s
        /\ delegated = [p \in ApprovePairs |-> [approved |-> allowance(s, p[1], p[2]), moved |-> 0]]

\* No message is being answered: the next one may start.
Idle == call.op = "none"

\* One message runs to completion on the storage: out is what the method produced.
Execute(op, caller, args, out) ==
    /\ call' = [op |-> op, caller |-> caller, args |-> args]
    /\ pre' = Storage
    /\ owner' = out.self.owner
    /\ total_supply' = out.self.total_supply
    /\ balances' = out.self.balances
    /\ allowances' = out.self.allowances
    /\ paused' = out.self.paused
    /\ blacklist' = out.self.blacklist
    /\ result' = out.result
    /\ events' = out.events

CallMint ==
    /\ Idle
    /\ \E caller \in Accounts, to \in Accounts, amount \in Amounts :
        Execute("mint", caller, <<to, amount>>, mint(Storage, caller, to, amount))

CallTransfer ==
    /\ Idle
    /\ \E caller \in Accounts, to \in Accounts, amount \in Amounts :
        Execute("transfer", caller, <<to, amount>>, transfer(Storage, caller, to, amount))

CallApprove ==
    /\ Idle
    /\ \E p \in ApprovePairs, amount \in ApproveAmounts :
        Execute("approve", p[1], <<p[2], amount>>, approve(Storage, p[1], p[2], amount))

CallTransferFrom ==
    /\ Idle
    /\ \E caller \in Accounts, from \in Accounts, to \in Accounts, amount \in Amounts :
        Execute("transfer_from", caller, <<from, to, amount>>,
                transfer_from(Storage, caller, from, to, amount))

\* The overflow-check setting of the build shows only when the sum overflows.
OverflowModes(amounts) == IF SumSeq(amounts) > MaxAmount THEN BOOLEAN ELSE {TRUE}

\* The amounts vector is as long as the recipients vector, or one shorter.
BatchLengths(n) == {n, n - 1} \cap (0..MaxBatch)

CallBatchTransfer ==
    /\ Idle
    /\ \E caller \in BatchCallers, n \in 0..MaxBatch :
        \E m \in BatchLengths(n) :
        \E recipients \in [1..n -> BatchRecipients], amounts \in [1..m -> BatchAmounts] :
            \E overflow_checks \in OverflowModes(amounts) :
                Execute("batch_transfer", caller, <<recipients, amounts, overflow_checks>>,
                        batch_transfer(Storage, caller, recipients, amounts, overflow_checks))

CallTogglePause ==
    /\ Idle
    /\ \E caller \in Accounts, p \in BOOLEAN :
        Execute("toggle_pause", caller, <<p>>, toggle_pause(Storage, caller, p))

CallBurn ==
    /\ Idle
    /\ \E caller \in Accounts, amount \in Amounts :
        Execute("burn", caller, <<amount>>, burn(Storage, caller, amount))

CallToggleBlacklist ==
    /\ Idle
    /\ \E caller \in Accounts, account \in BlacklistTargets, status \in BOOLEAN :
        Execute("toggle_blacklist", caller, <<account, status>>,
                toggle_blacklist(Storage, caller, account, status))

\* The message has returned: its Result and events belong to the caller, and
\* only the storage is carried over to the next message.
Return ==
    /\ ~Idle
    /\ call' = NoCall
    /\ result' = "none"
    /\ events' = <<>>
    /\ pre' = Storage
    /\ UNCHANGED storage_vars

Next ==
    \/ CallMint /\ UNCHANGED delegated
    \/ CallTransfer /\ UNCHANGED delegated
    \/ CallApprove /\ UNCHANGED delegated
    \/ CallTransferFrom /\ UNCHANGED delegated
    \/ CallBatchTransfer /\ UNCHANGED delegated
    \/ CallTogglePause /\ UNCHANGED delegated
    \/ CallBurn /\ UNCHANGED delegated
    \/ CallToggleBlacklist /\ UNCHANGED delegated
    \/ Return /\ UNCHANGED delegated

Spec == Init /\ [][Next]_vars

\* The most that is recorded as moved: one more than any approved amount.
MaxMoved == MaxAmount + 1

\* The history of the message that has just run: a successful approve starts
\* a new period for its pair, a successful transfer_from adds its amount to
\* what the spender has moved out of the owner's balance in this period.
Track ==
    delegated' = [p \in ApprovePairs |->
        IF call'.op = "approve" /\ result' = "Ok" /\ p = <<call'.caller, call'.args[1]>>
        THEN [approved |-> call'.args[2], moved |-> 0]
        ELSE IF call'.op = "transfer_from" /\ result' = "Ok"
                /\ p = <<call'.args[1], call'.caller>>
        THEN [delegated[p] EXCEPT
                 !.moved = IF @ + call'.args[3] > MaxMoved THEN MaxMoved
                           ELSE @ + call'.args[3]]
        ELSE delegated[p]]

NextDelegated ==
    \/ CallMint /\ Track
    \/ CallTransfer /\ Track
    \/ CallApprove /\ Track
    \/ CallTransferFrom /\ Track
    \/ CallBatchTransfer /\ Track
    \/ CallTogglePause /\ Track
    \/ CallBurn /\ Track
    \/ CallToggleBlacklist /\ Track
    \/ Return /\ UNCHANGED delegated

\* The same contract, with the history of delegated transfers recorded.
SpecDelegated == Init /\ [][NextDelegated]_vars

\* The owner mints b[a] to every account a of S (a mint of 0 is refused and
\* leaves the storage as it is).
RECURSIVE MintEach(_, _, _)
MintEach(self, b, S) ==
    IF S = {} THEN self
    ELSE LET a == CHOOSE x \in S : TRUE
         IN MintEach(mint(self, self.owner, a, b[a]).self, b, S \ {a})

\* Every owner of a pair of P approves n to the pair's spender.
RECURSIVE ApproveEach(_, _, _)
ApproveEach(self, n, P) ==
    IF P = {} THEN self
    ELSE LET p == CHOOSE x \in P : TRUE
         IN ApproveEach(approve(self, p[1], p[2], n).self, n, P \ {p})

\* The owner sets the blacklist status of every account a of S to bl[a].
RECURSIVE BlacklistEach(_, _, _)
BlacklistEach(self, bl, S) ==
    IF S = {} THEN self
    ELSE LET a == CHOOSE x \in S : TRUE
         IN BlacklistEach(toggle_blacklist(self, self.owner, a, bl[a]).self, bl, S \ {a})

\* The storage of a contract that d instantiated and whose owner then minted
\* the balances b, had the allowance n approved, set the blacklist bl and
\* the pause flag p.
Ledger(d, b, n, bl, p) ==
    toggle_pause(
        BlacklistEach(ApproveEach(MintEach(new(d), b, Accounts), n, ApprovePairs),
                      bl, Accounts),
        d, p).self

\* One message on each such ledger, for every blacklist over all accounts.
InitBlacklist ==
    \E d \in Deployers, b \in [Accounts -> {0, MaxAmount}], n \in {0, MaxAmount},
       bl \in [Accounts -> BOOLEAN], p \in BOOLEAN :
        LET s == Ledger(d, b, n, bl, p) IN
        /\ owner = s.owner
        /\ total_supply = s.total_supply
        /\ balances = s.balances
        /\ allowances = s.allowances
        /\ paused = s.paused
        /\ blacklist = s.blacklist
        /\ call = NoCall
        /\ result = "none"
        /\ events = <<>>
        /\ pre = s
        /\ delegated = [q \in ApprovePairs |-> [approved |-> allowance(s, q[1], q[2]), moved |-> 0]]

NextBlacklist ==
    \/ CallMint /\ UNCHANGED delegated
    \/ CallTransfer /\ UNCHANGED delegated
    \/ CallApprove /\ UNCHANGED delegated
    \/ CallTransferFrom /\ UNCHANGED delegated
    \/ CallBatchTransfer /\ UNCHANGED delegated
    \/ CallTogglePause /\ UNCHANGED delegated
    \/ CallBurn /\ UNCHANGED delegated
    \/ CallToggleBlacklist /\ UNCHANGED delegated

\* The messages as functions of the storage: one call on every ledger.
SpecBlacklist == InitBlacklist /\ [][NextBlacklist]_vars

\* ---------------------------------------------------------------- properties

\* A message has returned; the fields below read what it was called with.
Returned(op) == call.op = op
Caller == call.caller
Arg(i) == call.args[i]

\* The sum of balance_of(a) over all accounts, in unbounded integers.
RECURSIVE SumOver(_, _)
SumOver(bal, S) ==
    IF S = {} THEN 0
    ELSE LET a == CHOOSE x \in S : TRUE IN bal[a] + SumOver(bal, S \ {a})

SumBalances(bal) == SumOver(bal, Accounts)

Min(a, b) == IF a < b THEN a ELSE b

\* The message returned Err(_).
ReturnedError == result \in Error

\* The six storage fields are as they were when the message started.
StorageUnchanged == Storage = pre

\* C1: in every reachable state total_supply equals the sum of balance_of(a)
\* over all accounts a.
C1_Conservation == total_supply = SumBalances(balances)

\* C2 (as claimed): whenever a call returns an error, the storage is exactly
\* as before the call and the call emitted no event.
C2_ErrorMutatesNothing ==
    ReturnedError => StorageUnchanged /\ events = <<>>

\* The upfront checks of batch_transfer passed: not paused, equal lengths, and
\* the total as the build computed it is within the caller's balance.
BatchChecksPassed ==
    /\ Returned("batch_transfer")
    /\ ~pre.paused
    /\ Len(Arg(1)) = Len(Arg(2))
    /\ IF SumSeq(Arg(2)) > MaxAmount
       THEN ~Arg(3) /\ SumSeq(Arg(2)) % (MaxAmount + 1) <= pre.balances[Caller]
       ELSE SumSeq(Arg(2)) <= pre.balances[Caller]

\* A batch_transfer whose upfront checks passed and whose first pair is a
\* transfer that succeeds: index 0 is applied before any later pair can fail.
C2_BatchFirstPairApplied ==
    /\ BatchChecksPassed
    /\ Len(Arg(2)) >= 1
    /\ Arg(2)[1] > 0
    /\ Arg(2)[1] <= pre.balances[Caller]

\* C2 (amended): whenever a call returns an error, the storage is exactly as
\* before the call and the call emitted no event, except for a batch_transfer
\* that passed its upfront checks and applied its first pair before a later
\* pair failed.
C2_ErrorMutatesNothingButPartialBatch ==
    ReturnedError /\ ~C2_BatchFirstPairApplied => StorageUnchanged /\ events = <<>>

\* A call that passed three checks before failing the fourth, and a batch
\* that failed its aggregate check on two nonzero amounts.
C2_Witness ==
    \/ /\ Returned("transfer_from")
       /\ result = "InsufficientBalance"
       /\ pre.balances[Arg(1)] > 0
    \/ /\ Returned("batch_transfer")
       /\ result = "InsufficientBalance"
       /\ Len(Arg(2)) = 2
       /\ Arg(2)[1] > 0
       /\ Arg(2)[1] <= pre.balances[Caller]
       /\ events = <<>>

\* The balances after the first k pairs of a batch went through, one after
\* the other: each debits the caller, then credits the recipient (clamped).
RECURSIVE BalancesAfterPairs(_, _, _, _, _)
BalancesAfterPairs(bal, from, recipients, amounts, k) ==
    IF k = 0 THEN bal
    ELSE LET b == BalancesAfterPairs(bal, from, recipients, amounts, k - 1)
             debited == [b EXCEPT ![from] = @ - amounts[k]]
         IN  [debited EXCEPT ![recipients[k]] = Min(@ + amounts[k], MaxAmount)]

\* Pair k is one the transfer refuses once the pairs before it are applied.
PairFailsWith(k) ==
    LET before == BalancesAfterPairs(pre.balances, Caller, Arg(1), Arg(2), k - 1) IN
    IF Arg(2)[k] = 0 THEN "ZeroAmount"
    ELSE IF before[Caller] < Arg(2)[k] THEN "InsufficientBalance"
    ELSE "Ok"

\* C3: when batch_transfer passes its upfront checks and the transfer of pair
\* k is the first to fail, the call returns that error, the pairs before k
\* stay applied with their Transfer events emitted in order, no later pair is
\* applied, and nothing is rolled back.
C3_BatchPartialApplication ==
    BatchChecksPassed /\ ReturnedError =>
        \E k \in 1..Len(Arg(1)) :
            /\ \A i \in 1..(k - 1) : PairFailsWith(i) = "Ok"
            /\ PairFailsWith(k) = result
            /\ balances = BalancesAfterPairs(pre.balances, Caller, Arg(1), Arg(2), k - 1)
            /\ events = [i \in 1..(k - 1) |-> TransferEvent(Caller, Arg(1)[i], Arg(2)[i])]
            /\ [Storage EXCEPT !.balances = pre.balances] = pre

\* A batch that failed at its second pair with the first one left applied.
C3_Witness ==
    /\ BatchChecksPassed
    /\ ReturnedError
    /\ Len(events) = 1
    /\ balances # pre.balances

\* The sum of a vector of amounts, clamped at the largest amount.
SaturatingSum(amounts) == Min(SumSeq(amounts), MaxAmount)

\* C4: on an unpaused engine, with vectors of equal length, the total is the
\* saturating sum of the amounts, and whenever it exceeds balance_of(caller)
\* the call returns InsufficientBalance and mutates nothing.
C4_BatchAggregateSaturating ==
    /\ Returned("batch_transfer")
    /\ ~pre.paused
    /\ Len(Arg(1)) = Len(Arg(2))
    /\ SaturatingSum(Arg(2)) > pre.balances[Caller]
    => /\ result = "InsufficientBalance"
       /\ StorageUnchanged
       /\ events = <<>>

\* The error mint must report for a caller, recipient and amount: the first
\* failing check in the order owner, pause, blacklist, zero amount.
MintFirstFailure(c, to, amount) ==
    IF c # pre.owner THEN "NotOwner"
    ELSE IF pre.paused THEN "ContractPaused"
    ELSE IF pre.blacklist[to] THEN "AccountBlacklisted"
    ELSE IF amount = 0 THEN "ZeroAmount"
    ELSE "Ok"

\* C5: mint reports the first failing precondition in the order NotOwner,
\* ContractPaused, AccountBlacklisted, ZeroAmount, for every combination of
\* simultaneously failing conditions.
C5_MintCheckOrder ==
    Returned("mint") => result = MintFirstFailure(Caller, Arg(1), Arg(2))

\* All four preconditions fail at once and NotOwner is reported.
C5_Witness ==
    /\ Returned("mint")
    /\ pre.paused
    /\ pre.blacklist[Arg(1)]
    /\ Arg(2) = 0
    /\ Caller # pre.owner
    /\ result = "NotOwner"

\* C6: a mint by the owner of a nonzero amount to a recipient that is not
\* blacklisted, on an unpaused engine, succeeds; the recipient's balance and
\* total_supply each become the saturating sum of the old value and amount,
\* exactly one Minted{to, amount} is emitted and nothing else changes.
C6_MintEffect ==
    /\ Returned("mint")
    /\ Caller = pre.owner
    /\ ~pre.paused
    /\ ~pre.blacklist[Arg(1)]
    /\ Arg(2) > 0
    => /\ result = "Ok"
       /\ balances[Arg(1)] = Min(pre.balances[Arg(1)] + Arg(2), MaxAmount)
       /\ total_supply = Min(pre.total_supply + Arg(2), MaxAmount)
       /\ events = <<Minted(Arg(1), Arg(2))>>
       /\ \A a \in Accounts \ {Arg(1)} : balances[a] = pre.balances[a]
       /\ allowances = pre.allowances
       /\ owner = pre.owner
       /\ paused = pre.paused
       /\ blacklist = pre.blacklist

\* A successful mint that clamps the recipient's balance at the top of the
\* range while another account holds a balance of its own.
C6_Witness ==
    /\ Returned("mint")
    /\ result = "Ok"
    /\ pre.balances[Arg(1)] > 0
    /\ pre.balances[Arg(1)] + Arg(2) > MaxAmount
    /\ balances[Arg(1)] = MaxAmount
    /\ \E a \in Accounts \ {Arg(1)} : balances[a] > 0

\* No balance, allowance or total_supply changed during the message.
ValueUnchanged ==
    /\ balances = pre.balances
    /\ allowances = pre.allowances
    /\ total_supply = pre.total_supply

\* C7 (as claimed): while paused, every call to mint, transfer_from and
\* batch_transfer is rejected with ContractPaused and changes no balance,
\* allowance or total_supply, for every caller and every argument.
C7_PauseGateEveryCaller ==
    /\ pre.paused
    /\ call.op \in {"mint", "transfer_from", "batch_transfer"}
    => result = "ContractPaused" /\ ValueUnchanged

\* C7 (amended): while paused, every call to transfer_from and batch_transfer
\* by any caller, and every call to mint by the owner, is rejected with
\* ContractPaused; a mint by any other caller is rejected with NotOwner; none
\* of these calls changes a balance, an allowance or total_supply.
C7_PauseGate ==
    /\ pre.paused
    /\ call.op \in {"mint", "transfer_from", "batch_transfer"}
    => /\ result = IF Returned("mint") /\ Caller # pre.owner
                   THEN "NotOwner" ELSE "ContractPaused"
       /\ ValueUnchanged
       /\ events = <<>>

\* A delegated transfer that every other check would let through is
\* rejected because the engine is paused.
C7_Witness ==
    /\ Returned("transfer_from")
    /\ pre.paused
    /\ Arg(3) > 0
    /\ pre.allowances[<<Arg(1), Caller>>] >= Arg(3)
    /\ pre.balances[Arg(1)] >= Arg(3)
    /\ result = "ContractPaused"

\* C8: toggle_pause and toggle_blacklist by a caller other than owner return
\* NotOwner and change nothing; by the owner they succeed in either pause
\* state, set the flag, emit the event carrying the new state and change
\* nothing else; so paused and blacklist change only in a successful call of
\* the owner to the matching toggle.
C8_OwnerOnlyToggles ==
    /\ Returned("toggle_pause") /\ Caller # pre.owner
        => result = "NotOwner" /\ StorageUnchanged /\ events = <<>>
    /\ Returned("toggle_pause") /\ Caller = pre.owner
        => /\ result = "Ok"
           /\ paused = Arg(1)
           /\ events = <<Paused(Arg(1))>>
           /\ [Storage EXCEPT !.paused = pre.paused] = pre
    /\ Returned("toggle_blacklist") /\ Caller # pre.owner
        => result = "NotOwner" /\ StorageUnchanged /\ events = <<>>
    /\ Returned("toggle_blacklist") /\ Caller = pre.owner
        => /\ result = "Ok"
           /\ blacklist[Arg(1)] = Arg(2)
           /\ \A a \in Accounts \ {Arg(1)} : blacklist[a] = pre.blacklist[a]
           /\ events = <<Blacklisted(Arg(1), Arg(2))>>
           /\ [Storage EXCEPT !.blacklist = pre.blacklist] = pre
    /\ paused # pre.paused
        => Returned("toggle_pause") /\ Caller = pre.owner /\ result = "Ok"
    /\ blacklist # pre.blacklist
        => Returned("toggle_blacklist") /\ Caller = pre.owner /\ result = "Ok"

\* The owner lifts the pause of a paused engine, or blacklists an account
\* while the engine is paused.
C8_Witness ==
    \/ /\ Returned("toggle_pause")
       /\ pre.paused
       /\ ~paused
       /\ result = "Ok"
    \/ /\ Returned("toggle_blacklist")
       /\ pre.paused
       /\ ~pre.blacklist[Arg(1)]
       /\ blacklist[Arg(1)]

\* C9: transfer(to, amount) by `from` with from # to, in any pause and
\* blacklist state: with amount > balance_of(from) it returns
\* InsufficientBalance and leaves both balances unchanged; with
\* 0 < amount <= balance_of(from) it succeeds, from loses exactly amount, to
\* gains exactly amount, nothing else changes and one Transfer is emitted.
C9_TransferExact ==
    Returned("transfer") /\ Caller # Arg(1) /\ Arg(2) > 0 =>
        IF Arg(2) > pre.balances[Caller]
        THEN /\ result = "InsufficientBalance"
             /\ balances = pre.balances
        ELSE /\ result = "Ok"
             /\ balances[Caller] = pre.balances[Caller] - Arg(2)
             /\ balances[Arg(1)] = pre.balances[Arg(1)] + Arg(2)
             /\ \A a \in Accounts \ {Caller, Arg(1)} : balances[a] = pre.balances[a]
             /\ total_supply = pre.total_supply
             /\ allowances = pre.allowances
             /\ events = <<TransferEvent(Caller, Arg(1), Arg(2))>>

\* C10: a successful transfer_from(from, to, amount) leaves the sum of all
\* balances as it was; with from # to, from loses exactly amount and to gains
\* exactly amount; with from = to that account's balance is unchanged.
C10_TransferFromMovesAmount ==
    Returned("transfer_from") /\ result = "Ok" =>
        /\ SumBalances(balances) = SumBalances(pre.balances)
        /\ Arg(1) # Arg(2) =>
            /\ balances[Arg(1)] = pre.balances[Arg(1)] - Arg(3)
            /\ balances[Arg(2)] = pre.balances[Arg(2)] + Arg(3)
        /\ Arg(1) = Arg(2) => balances[Arg(1)] = pre.balances[Arg(1)]


\* C11: allowances change only through approve. A successful transfer_from
\* leaves allowance(from, caller) as it was; no other message changes any
\* allowance entry; approve(spender, amount) always succeeds and sets
\* allowance(caller, spender) to exactly amount, overwriting the old value,
\* and touches no other entry.
C11_AllowancesOnlyByApprove ==
    /\ allowances # pre.allowances => Returned("approve")
    /\ Returned("transfer_from") /\ result = "Ok"
        => allowances[<<Arg(1), Caller>>] = pre.allowances[<<Arg(1), Caller>>]
    /\ Returned("approve")
        => /\ result = "Ok"
           /\ allowances[<<Caller, Arg(1)>>] = Arg(2)
           /\ \A p \in (Accounts \X Accounts) \ {<<Caller, Arg(1)>>} :
                  allowances[p] = pre.allowances[p]

\* A delegated transfer used the whole allowance and the allowance is still there.
C11_Witness ==
    /\ Returned("transfer_from")
    /\ result = "Ok"
    /\ Arg(3) = pre.allowances[<<Arg(1), Caller>>]
    /\ allowances[<<Arg(1), Caller>>] = Arg(3)

\* C12: delegated transfers are bounded by the approved allowance. Between
\* one approve(O -> S, n) and the next approve by O for S, the total amount
\* that S moves out of O's balance through successful transfer_from calls
\* never exceeds n.
C12_DelegatedBoundedByAllowance ==
    \A p \in ApprovePairs : delegated[p].moved <= delegated[p].approved

\* C13: total_supply is increased only by a successful mint and decreased
\* only by a successful burn; transfer, approve, transfer_from,
\* batch_transfer (also one that fails mid-sequence), toggle_pause and
\* toggle_blacklist leave it unchanged, and so does a failed mint or burn.
C13_SupplyOnlyByMintAndBurn ==
    /\ total_supply > pre.total_supply => Returned("mint") /\ result = "Ok"
    /\ total_supply < pre.total_supply => Returned("burn") /\ result = "Ok"
    /\ call.op \notin {"mint", "burn"} => total_supply = pre.total_supply
    /\ result # "Ok" => total_supply = pre.total_supply

\* A batch that failed after its first pair was applied, with tokens in supply.
C13_Witness ==
    /\ BatchChecksPassed
    /\ ReturnedError
    /\ balances # pre.balances
    /\ pre.total_supply > 0
    /\ total_supply = pre.total_supply

\* The amount argument of the four value-moving messages.
AmountArg ==
    IF Returned("transfer_from") THEN Arg(3)
    ELSE IF Returned("burn") THEN Arg(1)
    ELSE Arg(2)

\* C14 (as claimed): every call to mint, transfer, transfer_from or burn with
\* amount = 0 is rejected with ZeroAmount and mutates nothing, for every
\* caller and every state, non-owner callers of mint and a paused engine
\* included.
C14_ZeroAmountAlwaysZeroAmount ==
    call.op \in {"mint", "transfer", "transfer_from", "burn"} /\ AmountArg = 0
        => result = "ZeroAmount" /\ StorageUnchanged /\ events = <<>>

\* C14 (amended): every such call with amount = 0 is rejected and mutates
\* nothing; the error is ZeroAmount for transfer and burn, for transfer_from
\* on an unpaused engine (ContractPaused otherwise), and for mint when the
\* caller is the owner, the engine is not paused and the recipient is not
\* blacklisted (otherwise NotOwner, ContractPaused or AccountBlacklisted, the
\* first in that order).
C14_ZeroAmountRejected ==
    call.op \in {"mint", "transfer", "transfer_from", "burn"} /\ AmountArg = 0
        => /\ result =
                IF Returned("mint") /\ Caller # pre.owner THEN "NotOwner"
                ELSE IF Returned("mint") /\ pre.paused THEN "ContractPaused"
                ELSE IF Returned("mint") /\ pre.blacklist[Arg(1)] THEN "AccountBlacklisted"
                ELSE IF Returned("transfer_from") /\ pre.paused THEN "ContractPaused"
                ELSE "ZeroAmount"
           /\ StorageUnchanged
           /\ events = <<>>

\* A burn of zero by an account that holds tokens, on a paused engine.
C14_Witness ==
    /\ Returned("burn")
    /\ Arg(1) = 0
    /\ pre.balances[Caller] > 0
    /\ pre.paused
    /\ result = "ZeroAmount"


\* How many leading pairs of a batch are applied: those before the first
\* pair the transfer refuses, none when an upfront check fails or the sum panics.
RECURSIVE LeadingPairsOk(_)
LeadingPairsOk(k) ==
    IF k > Len(Arg(1)) \/ PairFailsWith(k) # "Ok" THEN 0 ELSE 1 + LeadingPairsOk(k + 1)

PairsApplied == IF BatchChecksPassed THEN LeadingPairsOk(1) ELSE 0

\* The one event a successful call of a single-event message must emit.
EventOfCall ==
    IF Returned("mint") THEN Minted(Arg(1), Arg(2))
    ELSE IF Returned("transfer") THEN TransferEvent(Caller, Arg(1), Arg(2))
    ELSE IF Returned("approve") THEN Approval(Caller, Arg(1), Arg(2))
    ELSE IF Returned("transfer_from") THEN TransferEvent(Arg(1), Arg(2), Arg(3))
    ELSE IF Returned("burn") THEN Burned(Caller, Arg(1))
    ELSE IF Returned("toggle_pause") THEN Paused(Arg(1))
    ELSE Blacklisted(Arg(1), Arg(2))

SingleEventOps ==
    {"mint", "transfer", "approve", "transfer_from", "burn", "toggle_pause", "toggle_blacklist"}

\* C15: a successful mint, transfer, approve, transfer_from, burn,
\* toggle_pause or toggle_blacklist emits exactly one event of its kind
\* carrying the call's arguments, a failed one emits none, and batch_transfer
\* emits exactly one Transfer per applied (recipient, amount) pair, in input
\* order.
C15_EventDiscipline ==
    /\ call.op \in SingleEventOps /\ result = "Ok" => events = <<EventOfCall>>
    /\ call.op \in SingleEventOps /\ result # "Ok" => events = <<>>
    /\ Returned("batch_transfer")
        => /\ events = [i \in 1..PairsApplied |-> TransferEvent(Caller, Arg(1)[i], Arg(2)[i])]
           /\ result = "Ok" => PairsApplied = Len(Arg(1))
           /\ balances = BalancesAfterPairs(pre.balances, Caller, Arg(1), Arg(2), PairsApplied)

\* A successful batch of two pairs to two different recipients: two events, in input order.
C15_Witness ==
    /\ Returned("batch_transfer")
    /\ result = "Ok"
    /\ Len(events) = 2
    /\ Arg(1)[1] # Arg(1)[2]
    /\ events[1] = TransferEvent(Caller, Arg(1)[1], Arg(2)[1])
    /\ events[2] = TransferEvent(Caller, Arg(1)[2], Arg(2)[2])

\* C16: burn(amount) may be called by any account in any pause and blacklist
\* state: with amount > balance_of(caller) it returns InsufficientBalance and
\* changes nothing; with 0 < amount <= balance_of(caller) it succeeds, the
\* caller's balance and total_supply each decrease by exactly amount, and
\* Burned{caller, amount} is emitted.
C16_BurnExact ==
    Returned("burn") /\ Arg(1) > 0 =>
        IF Arg(1) > pre.balances[Caller]
        THEN result = "InsufficientBalance" /\ StorageUnchanged /\ events = <<>>
        ELSE /\ result = "Ok"
             /\ balances[Caller] = pre.balances[Caller] - Arg(1)
             /\ total_supply = pre.total_supply - Arg(1)
             /\ events = <<Burned(Caller, Arg(1))>>

\* C17: transfer(to, amount) with to = caller and 0 < amount <=
\* balance_of(caller) succeeds, leaves the whole storage unchanged and emits
\* one Transfer{caller, caller, amount}; with amount > balance_of(caller) it
\* fails with InsufficientBalance.
C17_SelfTransfer ==
    Returned("transfer") /\ Arg(1) = Caller /\ Arg(2) > 0 =>
        IF Arg(2) <= pre.balances[Caller]
        THEN /\ result = "Ok"
             /\ StorageUnchanged
             /\ events = <<TransferEvent(Caller, Caller, Arg(2))>>
        ELSE /\ result = "InsufficientBalance"
             /\ StorageUnchanged
             /\ events = <<>>

\* A self-transfer of part of a balance that went through.
C17_Witness ==
    /\ Returned("transfer")
    /\ Arg(1) = Caller
    /\ 0 < Arg(2)
    /\ Arg(2) < pre.balances[Caller]
    /\ result = "Ok"


\* The message that has returned, run again on the storage s.
Replay(s) ==
    IF Returned("transfer") THEN transfer(s, Caller, Arg(1), Arg(2))
    ELSE IF Returned("approve") THEN approve(s, Caller, Arg(1), Arg(2))
    ELSE IF Returned("transfer_from") THEN transfer_from(s, Caller, Arg(1), Arg(2), Arg(3))
    ELSE IF Returned("batch_transfer") THEN batch_transfer(s, Caller, Arg(1), Arg(2), Arg(3))
    ELSE IF Returned("burn") THEN burn(s, Caller, Arg(1))
    ELSE toggle_pause(s, Caller, Arg(1))

BlacklistBlindOps ==
    {"transfer", "approve", "transfer_from", "batch_transfer", "burn", "toggle_pause"}

\* C18: the blacklist is consulted only by mint. Started from a storage that
\* differs from the actual one only in the blacklist mapping (any of the
\* mappings over all accounts, as the actual one is in SpecBlacklist), every transfer,
\* approve, transfer_from, batch_transfer, burn and toggle_pause with the same
\* caller and arguments returns the same result and events and produces the
\* same balances, allowances, total_supply, paused flag and owner; and
\* AccountBlacklisted is returned exactly by the owner's mint to a blacklisted
\* recipient on an unpaused engine.
C18_BlacklistOnlyInMint ==
    /\ call.op \in BlacklistBlindOps =>
        \A bl \in [Accounts -> BOOLEAN] :
            Replay([pre EXCEPT !.blacklist = bl])
                = [self |-> [Storage EXCEPT !.blacklist = bl],
                   result |-> result,
                   events |-> events]
    /\ result = "AccountBlacklisted"
        <=> /\ Returned("mint")
            /\ Caller = pre.owner
            /\ ~pre.paused
            /\ pre.blacklist[Arg(1)]

\* A blacklisted account sends to a blacklisted account.
C18_Witness ==
    /\ Returned("transfer")
    /\ result = "Ok"
    /\ Arg(1) # Caller
    /\ pre.blacklist[Caller]
    /\ pre.blacklist[Arg(1)]

\* C19: owner is the constructing caller in every reachable state; no
\* message, successful or failed, changes it.
C19_OwnerImmutable ==
    /\ Deployers = {owner}
    /\ owner = pre.owner

\* Another account than the owner changed the storage, or the owner
\* blacklisted another account, and the owner is who it was.
C19_Witness ==
    /\ owner \in Deployers
    /\ \/ Returned("transfer") /\ Caller # owner /\ result = "Ok"
       \/ Returned("toggle_blacklist") /\ result = "Ok" /\ Arg(1) # owner /\ Arg(2)

====
